---- MODULE Spec2Model ----
(***************************************************************************)
(* baseball-streams (src/main.rs): main fetches the day's MLB schedule,     *)
(* lets the user pick a game, resolves the game's stream sources by title   *)
(* equality and prints the embed URLs of every source.                      *)
(*                                                                          *)
(* JSON values are modelled structurally.  An optional JSON field is a      *)
(* sequence of length 0 (absent, null or of the wrong type) or 1 (present). *)
(* A call ends "Ok", "Err" (an Err propagated by `?`) or "Panic" (an        *)
(* unwrap() on None, or an index out of bounds).                            *)
(***************************************************************************)
EXTENDS Integers, Sequences, FiniteSets, TLC

VARIABLES
    pc,         \* where main stands: the next await / read_line it blocks on
    exit,       \* "running", or how the process ended: "ok", "err", "panic"
    now,        \* chrono::Local::now(), as a day number
    game_number,\* main's `game_number`, once a selection was accepted
    games,      \* main's `games: Vec<Game>`
    input,      \* the line read from standard input, once read
    sources,    \* main's `sources`, the argument of get_streams
    src_i,      \* position of get_streams' `for source in sources`
    stdout,     \* the lines printed so far
    requests,   \* the URLs requested so far, in order
    sched_log,  \* one record per get_schedule call: date, response, outcome
    match_log,  \* one record per get_sources call: key, response, outcome
    stream_log  \* one record per source get_streams started on

vars == <<pc, exit, now, game_number, games, input, sources, src_i, stdout, requests,
          sched_log, match_log, stream_log>>

(***************************** bounds **************************************)
Today == 2          \* the day the run happens on
MaxRespSize == 5    \* dates plus game entries of a schedule response (get_schedule alone)
MaxMainSize == 3    \* the same, in the runs that go on past the schedule
MaxInputLen == 2    \* characters of the line typed at the prompt
MaxMatches == 2     \* matches of a matches response
MaxSources == 2     \* source descriptors of a match
MaxStreams == 2     \* stream records served over one run of get_streams

(***************************** options *************************************)
None == <<>>
Some(v) == <<v>>
unwrap_or(opt, default) == IF opt = None THEN default ELSE opt[1]

RECURSIVE SeqsUpTo(_, _)
SeqsUpTo(S, n) ==
    IF n <= 0 THEN {<<>>}
    ELSE LET R == SeqsUpTo(S, n - 1)
         IN  R \cup {Append(s, x) : s \in {r \in R : Len(r) = n - 1}, x \in S}

RECURSIVE Flatten(_)
Flatten(ss) == IF ss = <<>> THEN <<>> ELSE Head(ss) \o Flatten(Tail(ss))

(***************************** get_schedule ********************************)
keep_all_but_final(game) == unwrap_or(game.status, "") # "F"

\* the filter closure: the abstract game code is neither "F" nor "P"
keep(game) ==
    LET status == unwrap_or(game.status, "")
    IN  status # "F" /\ status # "P"

\* the four as_str().unwrap() of the for_each closure, in program order
required(game) ==
    << game.home.team.abbreviation, game.away.team.abbreviation,
       game.home.team.name, game.away.team.name >>

game_panics(game) == \E i \in 1..4 : required(game)[i] = None

inning_of(game) ==
    LET linescore == unwrap_or(game.linescore, [currentInningOrdinal |-> None, inningHalf |-> None])
    IN  unwrap_or(linescore.currentInningOrdinal, "N/A")

inning_char_default_bottom(game) ==
    LET linescore == unwrap_or(game.linescore, [currentInningOrdinal |-> None, inningHalf |-> None])
        inning_half == unwrap_or(linescore.inningHalf, "Bottom")
    IN  IF inning_half = "Bottom" THEN "Bottom of" ELSE "Top of"

inning_char_of(game) ==
    LET linescore == unwrap_or(game.linescore, [currentInningOrdinal |-> None, inningHalf |-> None])
        inning_half == unwrap_or(linescore.inningHalf, "Top")
    IN  IF inning_half = "Bottom" THEN "Bottom of" ELSE "Top of"

format_title(away_team, away_team_score, home_team, home_team_score, inning_char, inning) ==
    away_team \o " (" \o ToString(away_team_score) \o ") vs " \o home_team
        \o " (" \o ToString(home_team_score) \o ") | " \o inning_char \o " " \o inning

format_id(home_team_full_name, away_team_full_name) ==
    home_team_full_name \o " vs " \o away_team_full_name

make_game(game) ==
    LET home_team == game.home.team.abbreviation[1]
        away_team == game.away.team.abbreviation[1]
        home_team_score == unwrap_or(game.home.score, 0)
        away_team_score == unwrap_or(game.away.score, 0)
    IN  [ title |-> format_title(away_team, away_team_score, home_team, home_team_score,
                                 inning_char_of(game), inning_of(game)),
          id    |-> format_id(game.home.team.name[1], game.away.team.name[1]) ]

\* one date's games: filter, then push a Game per kept entry; an unwrap on a
\* missing required field panics and unwinds the whole call
RECURSIVE push_games(_, _)
push_games(entries, acc) ==
    IF entries = <<>> THEN [panic |-> FALSE, games |-> acc]
    ELSE LET game == Head(entries)
         IN  IF ~keep(game) THEN push_games(Tail(entries), acc)
             ELSE IF game_panics(game) THEN [panic |-> TRUE, games |-> acc]
             ELSE push_games(Tail(entries), Append(acc, make_game(game)))

RECURSIVE for_each_date(_, _)
for_each_date(dates, acc) ==
    IF dates = <<>> THEN [panic |-> FALSE, games |-> acc]
    ELSE IF Head(dates).games = None THEN [panic |-> TRUE, games |-> acc]
    ELSE LET r == push_games(Head(dates).games[1], acc)
         IN  IF r.panic THEN r ELSE for_each_date(Tail(dates), r.games)

\* the HTTP status of the response is never read: reqwest::get(..).await?
\* fails on a transport error only
get_schedule(resp) ==
    IF ~resp.net THEN [kind |-> "Err", games |-> <<>>]
    ELSE IF ~resp.body.json THEN [kind |-> "Err", games |-> <<>>]
    ELSE IF resp.body.dates = None THEN [kind |-> "Panic", games |-> <<>>]
    ELSE LET r == for_each_date(resp.body.dates[1], <<>>)
         IN  IF r.panic THEN [kind |-> "Panic", games |-> <<>>]
             ELSE [kind |-> "Ok", games |-> r.games]

format_date(day) == "day" \o ToString(day)

schedule_url(date_string) ==
    "http://statsapi.mlb.com/api/v1/schedule?sportId=1&hydrate=team,linescore&date=" \o date_string

(***************************** schedule responses **************************)
NYY == [abbreviation |-> "NYY", name |-> "New York Yankees"]
BOS == [abbreviation |-> "BOS", name |-> "Boston Red Sox"]

\* a club's team object, each of its two fields present or not
TeamObjs(club) ==
    [abbreviation : {None, Some(club.abbreviation)}, name : {None, Some(club.name)}]
FullTeam(club) == [abbreviation |-> Some(club.abbreviation), name |-> Some(club.name)]

Scores == {None, Some(0), Some(2), Some(3)}
Linescores ==
    {None} \cup {Some(l) : l \in [currentInningOrdinal : {None, Some("7th")},
                                  inningHalf : {None, Some("Top"), Some("Bottom")}]}
Statuses == {None, Some("F"), Some("P"), Some("L")}

EntriesOf(awayClub, homeClub) ==
    [ status : Statuses,
      away : [team : TeamObjs(awayClub), score : Scores],
      home : [team : TeamObjs(homeClub), score : Scores],
      linescore : Linescores ]
AllEntries == EntriesOf(NYY, BOS) \cup EntriesOf(BOS, NYY)

Entry(status, awayTeam, homeTeam) ==
    [ status |-> status,
      away |-> [team |-> awayTeam, score |-> None],
      home |-> [team |-> homeTeam, score |-> None],
      linescore |-> None ]

SmallPool ==
    { Entry(Some("L"), FullTeam(NYY), FullTeam(BOS)),
      Entry(Some("L"), FullTeam(BOS), FullTeam(NYY)),
      Entry(Some("F"), FullTeam(NYY), FullTeam(BOS)) }
EntryPool ==
    SmallPool \cup
    { Entry(Some("P"), FullTeam(BOS), FullTeam(NYY)),
      Entry(Some("L"), FullTeam(NYY), [abbreviation |-> None, name |-> Some(BOS.name)]) }

RECURSIVE Sum(_)
Sum(ns) == IF ns = <<>> THEN 0 ELSE Head(ns) + Sum(Tail(ns))

\* the games arrays of a `dates` array: flat cut into pieces of the lengths lens
Split(lens, flat) ==
    [ i \in 1..Len(lens) |->
        [games |-> Some(SubSeq(flat, Sum(SubSeq(lens, 1, i - 1)) + 1, Sum(SubSeq(lens, 1, i))))] ]

\* the `dates` arrays over pool P whose dates plus game entries number at most k
DateSeqs(P, k) ==
    UNION { { Split(lens, flat) : flat \in [1..Sum(lens) -> P] }
            : lens \in { l \in UNION { [1..nd -> 0..(k - nd)] : nd \in 0..k }
                           : Len(l) + Sum(l) <= k } }

HttpStatuses == {200, 500}
NoBody == [json |-> FALSE, dates |-> None]
SchedFailures ==
    { [net |-> FALSE, status |-> 200, body |-> NoBody],
      [net |-> TRUE, status |-> 200, body |-> NoBody],
      [net |-> TRUE, status |-> 500, body |-> NoBody],
      [net |-> TRUE, status |-> 200, body |-> [json |-> TRUE, dates |-> None]],
      [net |-> TRUE, status |-> 200, body |-> [json |-> TRUE, dates |-> Some(<<[games |-> None]>>)]] }
SchedBodies(D) ==
    { [net |-> TRUE, status |-> s, body |-> [json |-> TRUE, dates |-> Some(d)]]
        : d \in D, s \in HttpStatuses }

\* every arrangement of the pool's entries in dates, of at most k dates and
\* entries together, under either status
ArrangedSchedule(k) == SchedBodies(DateSeqs(EntryPool, k))
\* every single game entry
SingleEntrySchedule ==
    { [net |-> TRUE, status |-> 200,
       body |-> [json |-> TRUE, dates |-> Some(<<[games |-> Some(<<e>>)]>>)]] : e \in AllEntries }
SmallSchedule(k) ==
    SchedFailures
    \cup { r \in SchedBodies(DateSeqs(SmallPool, k)) : r.status = 200 }
\* one date with one game
OneGameSchedule ==
    { r \in SchedBodies({ <<[games |-> Some(<<e>>)]>> : e \in SmallPool }) : r.status = 200 }

(***************************** selection ***********************************)
Whitespace == {" ", "\n", "\t"}
Digits == <<"0", "1", "2", "3", "4", "5", "6", "7", "8", "9">>
IsDigit(c) == \E i \in 1..10 : Digits[i] = c
DigitVal(c) == (CHOOSE i \in 1..10 : Digits[i] = c) - 1

\* str::trim: whitespace off both ends
RECURSIVE trim_start(_)
trim_start(s) ==
    IF s # <<>> /\ Head(s) \in Whitespace THEN trim_start(Tail(s)) ELSE s
RECURSIVE trim_end(_)
trim_end(s) ==
    IF s # <<>> /\ s[Len(s)] \in Whitespace THEN trim_end(SubSeq(s, 1, Len(s) - 1)) ELSE s
trim(s) == trim_end(trim_start(s))

\* i32::MAX
I32Max == 2147483647

\* the checked accumulation of from_str_radix: None on overflow; a negative
\* number is accumulated downwards, so that i32::MIN parses
RECURSIVE checked_digits(_, _, _)
checked_digits(s, acc, negative) ==
    IF s = <<>> THEN Some(acc)
    ELSE LET d == DigitVal(Head(s))
             floor == IF d = 0 THEN I32Max \div 10 ELSE (I32Max - (d - 1)) \div 10
         IN  IF negative
             THEN IF acc < 0 - floor THEN None
                  ELSE checked_digits(Tail(s), 10 * acc - d, negative)
             ELSE IF acc > (I32Max - d) \div 10 THEN None
                  ELSE checked_digits(Tail(s), 10 * acc + d, negative)

\* str::parse::<i32>: an optional sign, then one or more decimal digits, and
\* the value within the range of i32
parse_i32(s) ==
    IF s = <<>> THEN None
    ELSE LET signed == Head(s) \in {"+", "-"}
             digits == IF signed THEN Tail(s) ELSE s
         IN  IF digits = <<>> \/ \E i \in 1..Len(digits) : ~IsDigit(digits[i]) THEN None
             ELSE checked_digits(digits, 0, Head(s) = "-")

\* `games.len() as i32` (a Vec of more than i32::MAX games is out of reach)
len_as_i32(n) == IF n <= I32Max THEN n ELSE (n - I32Max - 1) - I32Max - 1

selection_from_zero(line, len) ==
    LET parsed == parse_i32(trim(line))
    IN  IF parsed # None /\ parsed[1] >= 0 /\ parsed[1] <= len_as_i32(len)
        THEN Some(parsed[1] - 1) ELSE None

\* the match on the parsed input: Some(num - 1) for an accepted num, None for
\* the arm that prints "Invalid selection"
selection(line, len) ==
    LET parsed == parse_i32(trim(line))
    IN  IF parsed # None /\ parsed[1] > 0 /\ parsed[1] <= len_as_i32(len)
        THEN Some(parsed[1] - 1) ELSE None

AllInputs(n) == SeqsUpTo({"0", "1", "2", "-", "+", "a", " "}, n)
FewInputs == {<<>>, <<"0">>, <<"1">>, <<"2">>, <<"3">>, <<"-", "1">>, <<"a", "b", "c">>, <<"1", "\n">>}
OneInput == {<<"1", "\n">>}

(***************************** get_sources *********************************)
matches_url == "https://streamed.su/api/matches/baseball"

RECURSIVE find_last_match(_, _)
find_last_match(matches, id) ==
    IF matches = <<>> THEN [kind |-> "Ok", sources |-> <<>>]
    ELSE LET m == matches[Len(matches)]
         IN  IF m.title = None THEN [kind |-> "Panic", sources |-> <<>>]
             ELSE IF m.title[1] = id
                  THEN IF m.sources = None THEN [kind |-> "Panic", sources |-> <<>>]
                       ELSE [kind |-> "Ok", sources |-> m.sources[1]]
                  ELSE find_last_match(SubSeq(matches, 1, Len(matches) - 1), id)

\* for m in matches: the first title equal to id returns that match's sources
RECURSIVE find_match(_, _)
find_match(matches, id) ==
    IF matches = <<>> THEN [kind |-> "Ok", sources |-> <<>>]
    ELSE LET m == Head(matches)
         IN  IF m.title = None THEN [kind |-> "Panic", sources |-> <<>>]
             ELSE IF m.title[1] = id
                  THEN IF m.sources = None THEN [kind |-> "Panic", sources |-> <<>>]
                       ELSE [kind |-> "Ok", sources |-> m.sources[1]]
                  ELSE find_match(Tail(matches), id)

get_sources_err_as_empty(id, resp) ==
    IF ~resp.net \/ ~resp.body.json THEN [kind |-> "Ok", sources |-> <<>>]
    ELSE IF resp.body.matches = None THEN [kind |-> "Panic", sources |-> <<>>]
    ELSE find_match(resp.body.matches[1], id)

get_sources(id, resp) ==
    IF ~resp.net \/ ~resp.body.json THEN [kind |-> "Err", sources |-> <<>>]
    ELSE IF resp.body.matches = None THEN [kind |-> "Panic", sources |-> <<>>]
    ELSE find_match(resp.body.matches[1], id)

(***************************** get_streams *********************************)
stream_url(source_type, source_id) ==
    "https://streamed.su/api/stream/" \o source_type \o "/" \o source_id

RECURSIVE print_streams_reversed(_, _)
print_streams_reversed(streams, printed) ==
    IF streams = <<>> THEN [kind |-> "Ok", lines |-> printed]
    ELSE IF Head(streams).embedUrl = None THEN [kind |-> "Panic", lines |-> printed]
    ELSE print_streams_reversed(Tail(streams), <<Head(streams).embedUrl[1]>> \o printed)

\* the inner loop: print each record's embedUrl; the unwrap on a record
\* without one panics after the earlier records were printed
RECURSIVE print_streams(_, _)
print_streams(streams, printed) ==
    IF streams = <<>> THEN [kind |-> "Ok", lines |-> printed]
    ELSE IF Head(streams).embedUrl = None THEN [kind |-> "Panic", lines |-> printed]
    ELSE print_streams(Tail(streams), Append(printed, Head(streams).embedUrl[1]))

\* one source, from the response to its request on
fetch_streams(resp) ==
    IF ~resp.net \/ ~resp.body.json THEN [kind |-> "Err", lines |-> <<>>]
    ELSE IF resp.body.streams = None THEN [kind |-> "Panic", lines |-> <<>>]
    ELSE print_streams(resp.body.streams[1], <<>>)

(***************************** matches and stream responses ****************)
SourceA == [id |-> Some("1"), source |-> Some("alpha")]
SourceB == [id |-> Some("2"), source |-> Some("bravo")]
SourceNoId == [id |-> None, source |-> Some("alpha")]
SourceObjs == {SourceA, SourceB, SourceNoId}

Titles ==
    { None, Some("New York Yankees vs Boston Red Sox"), Some("Boston Red Sox vs New York Yankees"),
      Some("boston red sox vs new york yankees") }

NoMatches == [json |-> FALSE, matches |-> None]
MatchFailures ==
    { [net |-> FALSE, body |-> NoMatches],
      [net |-> TRUE, body |-> NoMatches],
      [net |-> TRUE, body |-> [json |-> TRUE, matches |-> None]] }
MatchBodies(M) == { [net |-> TRUE, body |-> [json |-> TRUE, matches |-> Some(m)]] : m \in M }

RichMatchObjs ==
    [ title : Titles,
      sources : {None, Some(<<>>), Some(<<SourceA>>), Some(<<SourceB, SourceA>>)} ]
RichMatches(n) == MatchFailures \cup MatchBodies(SeqsUpTo(RichMatchObjs, n))

\* one match, of either title order, with every list of source descriptors
SourceListMatches(n) ==
    MatchBodies({ <<[title |-> t, sources |-> Some(ss)]>>
                    : t \in Titles \ {None}, ss \in SeqsUpTo(SourceObjs, n) })
SmallMatches ==
    MatchFailures
    \cup MatchBodies({ <<[title |-> t, sources |-> Some(ss)]>>
                         : t \in Titles \ {None}, ss \in {<<SourceA>>, <<SourceNoId>>, <<SourceA, SourceB>>} })

StreamObjs == {[embedUrl |-> Some("https://embed/u1")], [embedUrl |-> Some("https://embed/u2")],
               [embedUrl |-> None]}
NoStreams == [json |-> FALSE, streams |-> None]
StreamFailures ==
    { [net |-> FALSE, body |-> NoStreams],
      [net |-> TRUE, body |-> NoStreams],
      [net |-> TRUE, body |-> [json |-> TRUE, streams |-> None]] }
StreamBodies(n) ==
    { [net |-> TRUE, body |-> [json |-> TRUE, streams |-> Some(ss)]] : ss \in SeqsUpTo(StreamObjs, n) }
\* the stream records served so far in this run
Served ==
    Len(Flatten([i \in 1..Len(stream_log) |-> unwrap_or(stream_log[i].resp.body.streams, <<>>)]))
RichStreams == StreamFailures \cup StreamBodies(MaxStreams - Served)
SmallStreams ==
    { [net |-> FALSE, body |-> NoStreams],
      [net |-> TRUE, body |-> [json |-> TRUE, streams |-> Some(<<[embedUrl |-> Some("https://embed/u1")]>>)]] }

(***************************** main ****************************************)
Init ==
    /\ pc = "FetchToday"
    /\ exit = "running"
    /\ now = Today
    /\ game_number = None
    /\ games = <<>>
    /\ input = None
    /\ sources = <<>>
    /\ src_i = 0
    /\ stdout = <<>>
    /\ requests = <<>>
    /\ sched_log = <<>>
    /\ match_log = <<>>
    /\ stream_log = <<>>

\* how main ends when a call does not return Ok
exit_of(kind) == IF kind = "Err" THEN "err" ELSE "panic"

\* the list and the prompt printed before read_line
Display(gs) ==
    <<"", "Available games:">>
    \o [i \in 1..Len(gs) |-> ToString(i) \o ". " \o gs[i].title]
    \o <<"", "Select a game number:">>

needs_fallback_always(gs) == TRUE

\* `if games.len() == 0`
needs_fallback(gs) == Len(gs) = 0

\* let mut games = get_schedule(&date).await?; and, unless the fallback is
\* due, on to the prompt
FetchToday(Responses) ==
    /\ pc = "FetchToday"
    /\ \E resp \in Responses :
        LET date == format_date(now)
            r == get_schedule(resp)
        IN  /\ requests' = Append(requests, schedule_url(date))
            /\ sched_log' = Append(sched_log, [date |-> date, resp |-> resp, kind |-> r.kind,
                                               games |-> r.games])
            /\ IF r.kind # "Ok"
               THEN /\ pc' = "Done"
                    /\ exit' = exit_of(r.kind)
                    /\ UNCHANGED <<games, stdout>>
               ELSE /\ games' = r.games
                    /\ exit' = exit
                    /\ IF needs_fallback(r.games)
                       THEN pc' = "FetchYesterday" /\ stdout' = stdout
                       ELSE pc' = "AwaitingSelection" /\ stdout' = stdout \o Display(r.games)
    /\ UNCHANGED <<now, game_number, input, sources, src_i, match_log, stream_log>>

\* games = get_schedule(&date).await?; with the date one day back
FetchYesterday(Responses) ==
    /\ pc = "FetchYesterday"
    /\ \E resp \in Responses :
        LET date == format_date(now - 1)
            r == get_schedule(resp)
        IN  /\ requests' = Append(requests, schedule_url(date))
            /\ sched_log' = Append(sched_log, [date |-> date, resp |-> resp, kind |-> r.kind,
                                               games |-> r.games])
            /\ IF r.kind # "Ok"
               THEN /\ pc' = "Done"
                    /\ exit' = exit_of(r.kind)
                    /\ UNCHANGED <<games, stdout>>
               ELSE /\ games' = r.games
                    /\ exit' = exit
                    /\ pc' = "AwaitingSelection"
                    /\ stdout' = stdout \o Display(r.games)
    /\ UNCHANGED <<now, game_number, input, sources, src_i, match_log, stream_log>>

\* read_line, the match on the parsed number, and the indexing of games
Select(Inputs) ==
    /\ pc = "AwaitingSelection"
    /\ \E line \in Inputs :
        LET sel == selection(line, Len(games))
        IN  /\ input' = Some(line)
            /\ IF sel = None
               THEN /\ stdout' = Append(stdout, "Invalid selection")
                    /\ pc' = "Done"
                    /\ exit' = "ok"
                    /\ game_number' = game_number
               ELSE IF sel[1] + 1 \notin 1..Len(games)
               THEN /\ pc' = "Done"
                    /\ exit' = "panic"
                    /\ game_number' = sel
                    /\ stdout' = stdout
               ELSE /\ stdout' = stdout \o <<"", "Selected game: " \o games[sel[1] + 1].title, "">>
                    /\ pc' = "GetSources"
                    /\ exit' = exit
                    /\ game_number' = sel
    /\ UNCHANGED <<now, games, sources, src_i, requests, sched_log, match_log, stream_log>>

\* let sources = get_sources(game_id).await?;
GetSources(Responses) ==
    /\ pc = "GetSources"
    /\ \E resp \in Responses :
        LET game_id == games[game_number[1] + 1].id
            r == get_sources(game_id, resp)
        IN  /\ stdout' = Append(stdout, "Getting sources for " \o game_id \o "...")
            /\ requests' = Append(requests, matches_url)
            /\ match_log' = Append(match_log, [id |-> game_id, resp |-> resp, kind |-> r.kind,
                                               sources |-> r.sources])
            /\ IF r.kind # "Ok"
               THEN pc' = "Done" /\ exit' = exit_of(r.kind) /\ sources' = sources
               ELSE pc' = "GetStreams" /\ exit' = exit /\ sources' = r.sources
    /\ UNCHANGED <<now, game_number, games, input, src_i, sched_log, stream_log>>

\* get_streams up to its loop: the three header lines
GetStreamsBegin ==
    /\ pc = "GetStreams"
    /\ stdout' = stdout \o <<"", "Streams: ", "">>
    /\ IF sources = <<>>
       THEN pc' = "Done" /\ exit' = "ok" /\ src_i' = src_i
       ELSE pc' = "StreamLoop" /\ exit' = exit /\ src_i' = 1
    /\ UNCHANGED <<now, game_number, games, input, sources, requests, sched_log, match_log,
                   stream_log>>

next_source_on_error(kind) == TRUE

\* whether the loop goes on to the next source after this one
next_source(kind) == kind = "Ok"

\* one turn of `for source in sources`
GetStreamsSource(Responses) ==
    /\ pc = "StreamLoop"
    /\ LET source == sources[src_i]
           wellformed == source.id # None /\ source.source # None
       IN  \E resp \in (IF wellformed THEN Responses ELSE {[net |-> FALSE, body |-> NoStreams]}) :
            LET r == IF wellformed THEN fetch_streams(resp) ELSE [kind |-> "Panic", lines |-> <<>>]
            IN  /\ requests' = IF wellformed
                               THEN Append(requests, stream_url(source.source[1], source.id[1]))
                               ELSE requests
                /\ stream_log' = Append(stream_log, [source |-> source, requested |-> wellformed,
                                                     resp |-> resp, kind |-> r.kind])
                /\ stdout' = stdout \o r.lines
                /\ IF next_source(r.kind) /\ src_i < Len(sources)
                   THEN pc' = "StreamLoop" /\ exit' = exit /\ src_i' = src_i + 1
                   ELSE /\ pc' = "Done"
                        /\ src_i' = src_i
                        /\ exit' = IF r.kind = "Ok" THEN "ok" ELSE exit_of(r.kind)
    /\ UNCHANGED <<now, game_number, games, input, sources, sched_log, match_log>>

Next ==
    \/ FetchToday(SmallSchedule(MaxMainSize))
    \/ FetchYesterday(SmallSchedule(MaxMainSize))
    \/ Select(FewInputs)
    \/ GetSources(SmallMatches)
    \/ GetStreamsBegin
    \/ GetStreamsSource(SmallStreams)
Spec == Init /\ [][Next]_vars

\* get_schedule on every shape of response
NextSchedule ==
    \/ FetchToday(SchedFailures)
    \/ FetchToday(ArrangedSchedule(MaxRespSize))
    \/ FetchToday(SingleEntrySchedule)
SpecSchedule == Init /\ [][NextSchedule]_vars

\* the prompt on every input line
NextSelect ==
    \/ FetchToday(SmallSchedule(MaxMainSize))
    \/ FetchYesterday(SmallSchedule(MaxMainSize))
    \/ Select(AllInputs(MaxInputLen) \cup FewInputs)
SpecSelect == Init /\ [][NextSelect]_vars

\* get_sources on every shape of matches response
NextSources ==
    \/ FetchToday(OneGameSchedule)
    \/ Select(OneInput)
    \/ GetSources(RichMatches(MaxMatches))
SpecSources == Init /\ [][NextSources]_vars

\* get_streams on every source list and every shape of stream response
NextStreams ==
    \/ FetchToday(OneGameSchedule)
    \/ Select(OneInput)
    \/ GetSources(SourceListMatches(MaxSources))
    \/ GetStreamsBegin
    \/ GetStreamsSource(RichStreams)
SpecStreams == Init /\ [][NextStreams]_vars

(***************************** properties: get_schedule ********************)
\* every game entry of a response, dates in order, games within a date in order
AllEntriesOf(resp) ==
    LET dates == unwrap_or(resp.body.dates, <<>>)
    IN  Flatten([i \in 1..Len(dates) |-> unwrap_or(dates[i].games, <<>>)])

HasRequired(e) ==
    /\ e.away.team.abbreviation # None /\ e.away.team.name # None
    /\ e.home.team.abbreviation # None /\ e.home.team.name # None

\* the entries whose abstract status code is neither Final nor Preview
IsQualifying(e) == e.status # Some("F") /\ e.status # Some("P")
Qualifying(resp) == SelectSeq(AllEntriesOf(resp), IsQualifying)

\* a response that arrived, is JSON, has its dates and games arrays, and
\* whose entries all carry the team abbreviations and names
WellFormedSchedule(resp) ==
    /\ resp.net /\ resp.body.json /\ resp.body.dates # None
    /\ \A i \in 1..Len(resp.body.dates[1]) : resp.body.dates[1][i].games # None
    /\ \A i \in 1..Len(AllEntriesOf(resp)) : HasRequired(AllEntriesOf(resp)[i])

\* C1: for every game get_schedule keeps, the Game's id is the away team's
\* full name, then " vs ", then the home team's full name.
C1_KeyAwayVsHome ==
    \A c \in 1..Len(sched_log) :
        sched_log[c].kind = "Ok" =>
            LET kept == Qualifying(sched_log[c].resp)
            IN  \A j \in 1..Len(sched_log[c].games) :
                    j <= Len(kept) =>
                        sched_log[c].games[j].id
                            = kept[j].away.team.name[1] \o " vs " \o kept[j].home.team.name[1]

\* C4: on a well-formed response get_schedule succeeds with exactly one Game
\* per qualifying entry (status neither Final nor Preview), in response order:
\* the j-th Game is the one made from the j-th qualifying entry.
C4_OnePerQualifying ==
    \A c \in 1..Len(sched_log) :
        WellFormedSchedule(sched_log[c].resp) =>
            LET kept == Qualifying(sched_log[c].resp)
                got == sched_log[c].games
            IN  /\ sched_log[c].kind = "Ok"
                /\ Len(got) = Len(kept)
                /\ \A j \in 1..Len(got) :
                    /\ got[j].title = make_game(kept[j]).title
                    /\ got[j].id = make_game(kept[j]).id

\* two dates, an excluded entry between two kept games of different teams
C4_Witness ==
    /\ Len(sched_log) = 1
    /\ WellFormedSchedule(sched_log[1].resp)
    /\ Len(sched_log[1].resp.body.dates[1]) = 2
    /\ Len(AllEntriesOf(sched_log[1].resp)) = 3
    /\ ~IsQualifying(AllEntriesOf(sched_log[1].resp)[2])
    /\ Len(sched_log[1].games) = 2
    /\ sched_log[1].games[1].title # sched_log[1].games[2].title
    /\ games = sched_log[1].games

\* the title the format prescribes for an entry
ExpectedTitle(e) ==
    LET away_score == IF e.away.score = None THEN 0 ELSE e.away.score[1]
        home_score == IF e.home.score = None THEN 0 ELSE e.home.score[1]
        inning == IF e.linescore = None \/ e.linescore[1].currentInningOrdinal = None
                  THEN "N/A" ELSE e.linescore[1].currentInningOrdinal[1]
        half == IF e.linescore # None /\ e.linescore[1].inningHalf = Some("Bottom")
                THEN "Bottom of" ELSE "Top of"
    IN  e.away.team.abbreviation[1] \o " (" \o ToString(away_score) \o ") vs "
            \o e.home.team.abbreviation[1] \o " (" \o ToString(home_score) \o ") | "
            \o half \o " " \o inning

\* C6: every kept game's title is "{away_abbr} ({away_score}) vs {home_abbr}
\* ({home_score}) | {Top of|Bottom of} {inning}", with 0 for an absent score,
\* "N/A" for an absent linescore or inning ordinal, "Top of" unless the inning
\* half is "Bottom"; and a well-formed response with a game that has no
\* linescore does not make get_schedule fail.
C6_TitleFormat ==
    \A c \in 1..Len(sched_log) :
        LET kept == Qualifying(sched_log[c].resp)
        IN  /\ sched_log[c].kind = "Ok" =>
                \A j \in 1..Len(sched_log[c].games) :
                    j <= Len(kept) => sched_log[c].games[j].title = ExpectedTitle(kept[j])
            /\ ( /\ WellFormedSchedule(sched_log[c].resp)
                 /\ \E j \in 1..Len(kept) : kept[j].linescore = None )
               => sched_log[c].kind = "Ok" /\ Len(sched_log[c].games) = Len(kept)

\* a kept game without linescore and without the away team's score
C6_Witness ==
    /\ Len(sched_log) = 1
    /\ sched_log[1].kind = "Ok"
    /\ Len(games) = 1
    /\ Qualifying(sched_log[1].resp)[1].linescore = None
    /\ Qualifying(sched_log[1].resp)[1].away.score = None
    /\ games[1].title = "NYY (0) vs BOS (2) | Top of N/A"

\* the worked example: away NYY 3, home BOS 2, bottom of the 7th
C6_Example == games # <<>> /\ games[1].title = "NYY (3) vs BOS (2) | Bottom of 7th"

\* C7: a get_schedule call fails as a whole, with no Game list, whenever the
\* request fails in transport, the response is non-2xx, the body is not JSON,
\* or a game entry lacks a team abbreviation or full name; and then the flow
\* does not reach the selection step.
C7_FailsAsAWhole ==
    \A c \in 1..Len(sched_log) :
        LET resp == sched_log[c].resp
        IN  ( \/ ~resp.net
              \/ resp.status \notin 200..299
              \/ ~resp.body.json
              \/ \E i \in 1..Len(AllEntriesOf(resp)) : ~HasRequired(AllEntriesOf(resp)[i]) )
            => /\ sched_log[c].kind # "Ok"
               /\ sched_log[c].games = <<>>
               /\ c = Len(sched_log) => pc = "Done" /\ exit \in {"err", "panic"}

(***************************** properties: selection ***********************)
\* the decimal digits of a positive integer
RECURSIVE DecimalOf(_)
DecimalOf(k) ==
    IF k < 10 THEN <<Digits[k + 1]>> ELSE DecimalOf(k \div 10) \o <<Digits[(k % 10) + 1]>>

\* the line, whitespace around it aside, is the decimal numeral of k, possibly
\* with a plus sign and leading zeros
Denotes(line, k) ==
    \E a \in 0..Len(line), b \in 0..Len(line) :
        /\ a <= b
        /\ \A i \in 1..a : line[i] \in Whitespace
        /\ \A i \in (b + 1)..Len(line) : line[i] \in Whitespace
        /\ \E sign \in {<<>>, <<"+">>}, z \in 0..Len(line) :
            SubSeq(line, a + 1, b) = sign \o [i \in 1..z |-> "0"] \o DecimalOf(k)

Rejected ==
    /\ pc = "Done"
    /\ exit = "ok"
    /\ game_number = None
    /\ stdout[Len(stdout)] = "Invalid selection"
    /\ stdout = Display(games) \o <<"Invalid selection">>

\* C2: with N games displayed, the line read selects a game iff it denotes an
\* integer k with 1 <= k <= N, and then the k-th displayed game is selected;
\* "0", "-1", "abc", "" and every other line are rejected with "Invalid
\* selection"; indexing games never goes out of bounds.
C2_SelectionIffInRange ==
    input # None =>
        LET line == input[1]
            N == Len(games)
        IN  /\ exit # "panic"
            /\ \A k \in 1..N :
                Denotes(line, k) =>
                    /\ game_number = Some(k - 1)
                    /\ pc # "Done" \/ exit # "ok" \/ stdout[Len(stdout)] # "Invalid selection"
                    /\ SubSeq(stdout, Len(Display(games)) + 1, Len(Display(games)) + 3)
                        = <<"", "Selected game: " \o games[k].title, "">>
            /\ (~ \E k \in 1..N : Denotes(line, k)) => Rejected
            /\ line \in {<<"0">>, <<"-", "1">>, <<"a", "b", "c">>, <<>>} => Rejected
            /\ N = 0 => Rejected

\* the second of two displayed games is picked
C2_Witness ==
    /\ Len(games) = 2
    /\ games[1] # games[2]
    /\ input = Some(<<"2">>)
    /\ game_number = Some(1)
    /\ pc = "GetSources"

(***************************** properties: schedule fallback ***************)
ScheduleUrls == {schedule_url(format_date(now)), schedule_url(format_date(now - 1))}

\* C3: the schedule is fetched a second time, for yesterday, iff the first
\* fetch succeeded with zero games; never more than twice; a failed first
\* fetch is not retried; when the fallback ran, the list shown is the second
\* fetch's result.
C3_SingleFallback ==
    /\ Len(sched_log) <= 2
    /\ \A i \in 1..Len(requests) :
        requests[i] \in ScheduleUrls <=> i <= Len(sched_log)
    /\ Len(sched_log) >= 1 =>
        /\ sched_log[1].date = format_date(now)
        /\ requests[1] = schedule_url(format_date(now))
        /\ LET empty_ok == /\ sched_log[1].resp.net /\ sched_log[1].resp.body.json
                           /\ sched_log[1].kind = "Ok"
                           /\ Qualifying(sched_log[1].resp) = <<>>
           IN  /\ Len(sched_log) = 2 => empty_ok
               /\ (empty_ok /\ Len(sched_log) = 1) => pc = "FetchYesterday"
               /\ ~empty_ok => pc # "FetchYesterday"
    /\ Len(sched_log) = 2 =>
        /\ sched_log[2].date = format_date(now - 1)
        /\ requests[2] = schedule_url(format_date(now - 1))
        /\ pc # "FetchYesterday"
        /\ sched_log[2].kind # "Ok" => pc = "Done" /\ exit \in {"err", "panic"} /\ stdout = <<>>
        /\ sched_log[2].kind = "Ok" =>
            LET shown == sched_log[2].games
            IN  /\ games = shown
                /\ Len(stdout) >= Len(shown) + 4
                /\ SubSeq(stdout, 1, 2) = <<"", "Available games:">>
                /\ \A j \in 1..Len(shown) : stdout[2 + j] = ToString(j) \o ". " \o shown[j].title
                /\ SubSeq(stdout, Len(shown) + 3, Len(shown) + 4) = <<"", "Select a game number:">>

\* the fallback ran and found games, which are on display
C3_Witness ==
    /\ Len(sched_log) = 2
    /\ sched_log[2].games # <<>>
    /\ pc = "AwaitingSelection"

(***************************** properties: get_sources *********************)
\* a matches response that arrived, is a JSON array, and whose matches all
\* carry a title and a sources array
WellFormedMatches(resp) ==
    /\ resp.net /\ resp.body.json /\ resp.body.matches # None
    /\ \A i \in 1..Len(resp.body.matches[1]) :
        resp.body.matches[1][i].title # None /\ resp.body.matches[1][i].sources # None

\* C5: on a well-formed matches response get_sources returns the sources of
\* the first match, in response order, whose title equals the key exactly,
\* whatever later matches carry the same title; with no such match it returns
\* an empty sequence, and succeeds.
C5_FirstExactTitle ==
    \A c \in 1..Len(match_log) :
        WellFormedMatches(match_log[c].resp) =>
            LET ms == match_log[c].resp.body.matches[1]
                hits == {i \in 1..Len(ms) : ms[i].title = Some(match_log[c].id)}
            IN  /\ match_log[c].kind = "Ok"
                /\ pc = "GetStreams"
                /\ sources = match_log[c].sources
                /\ hits = {} => match_log[c].sources = <<>>
                /\ hits # {} =>
                    \E i \in hits :
                        /\ \A j \in hits : i <= j
                        /\ match_log[c].sources = ms[i].sources[1]

\* two matches carry the key as title, with different sources: the first wins
C5_Witness ==
    /\ Len(match_log) = 1
    /\ WellFormedMatches(match_log[1].resp)
    /\ Len(match_log[1].resp.body.matches[1]) = 2
    /\ match_log[1].resp.body.matches[1][1].title = Some(match_log[1].id)
    /\ match_log[1].resp.body.matches[1][2].title = Some(match_log[1].id)
    /\ match_log[1].resp.body.matches[1][1].sources # match_log[1].resp.body.matches[1][2].sources
    /\ sources = match_log[1].resp.body.matches[1][1].sources[1]
    /\ sources # <<>>

(***************************** properties: get_streams *********************)
Header == <<"", "Streams: ", "">>
EmbedUrls == {o.embedUrl[1] : o \in {x \in StreamObjs : x.embedUrl # None}}

\* what main has printed when get_streams is entered: the list, the prompt,
\* the selected game, the progress notice of get_sources
BeforeStreams == Len(games) + 8
GetStreamsEntered == pc = "StreamLoop" \/ (pc = "Done" /\ match_log # <<>> /\ match_log[1].kind = "Ok")

\* the embed URLs of a stream response, in response order
UrlsOf(resp) ==
    LET ss == unwrap_or(resp.body.streams, <<>>)
    IN  [j \in 1..Len(ss) |-> unwrap_or(ss[j].embedUrl, "")]
\* the embed URLs of the first n sources get_streams worked on
UrlsOfFirst(n) == Flatten([i \in 1..n |-> UrlsOf(stream_log[i].resp)])

\* C8: when every fetch succeeds, get_streams prints the header lines and then
\* one line per stream record, in source-list order and per-source response
\* order; no URL precedes the header; for an empty source list the output is
\* the header only, and the run succeeds.
C8_HeaderThenUrlsInOrder ==
    /\ \A i \in 1..Len(stdout) : stdout[i] \in EmbedUrls => GetStreamsEntered /\ i > BeforeStreams + 3
    /\ GetStreamsEntered => SubSeq(stdout, BeforeStreams + 1, BeforeStreams + 3) = Header
    /\ ( /\ GetStreamsEntered
         /\ pc = "Done"
         /\ \A i \in 1..Len(stream_log) :
               /\ stream_log[i].requested
               /\ stream_log[i].resp.net /\ stream_log[i].resp.body.json
               /\ stream_log[i].resp.body.streams # None
               /\ \A j \in 1..Len(stream_log[i].resp.body.streams[1]) :
                     stream_log[i].resp.body.streams[1][j].embedUrl # None )
       => /\ exit = "ok"
          /\ Len(stream_log) = Len(sources)
          /\ \A i \in 1..Len(sources) : stream_log[i].source = sources[i]
          /\ SubSeq(stdout, BeforeStreams + 4, Len(stdout)) = UrlsOfFirst(Len(stream_log))
    /\ (GetStreamsEntered /\ sources = <<>>) =>
          /\ pc = "Done" /\ exit = "ok"
          /\ Len(stdout) = BeforeStreams + 3

\* one source answers with two different URLs, printed in response order
C8_Witness ==
    /\ pc = "Done" /\ exit = "ok"
    /\ Len(stream_log) = 1
    /\ Len(stdout) = BeforeStreams + 5
    /\ stdout[BeforeStreams + 4] # stdout[BeforeStreams + 5]
    /\ stdout[BeforeStreams + 4] = stream_log[1].resp.body.streams[1][1].embedUrl[1]

\* the index of the first source whose fetch or parse failed, if any
Failed(i) == i \in 1..Len(stream_log) /\ stream_log[i].kind # "Ok"

\* the stream requests issued: one per source get_streams asked for
StreamRequests == SubSeq(requests, Len(sched_log) + Len(match_log) + 1, Len(requests))
Asked == SelectSeq(stream_log, LAMBDA e : e.requested)

AbortedAt(i) ==
    /\ Len(stream_log) = i
    /\ Len(StreamRequests) = Len(Asked)
    /\ \A j \in 1..Len(Asked) :
          StreamRequests[j] = stream_url(Asked[j].source.source[1], Asked[j].source.id[1])
    /\ pc = "Done"
    /\ exit \in {"err", "panic"}

\* C9 as claimed: when the fetch or parse of the i-th source fails, no later
\* source is requested, no embed URL of the i-th or a later source is printed,
\* the URLs of sources 1..i-1 stay printed, and the run ends as failed.
C9_NoUrlFromFailedSource ==
    \A i \in 1..Len(stream_log) :
        Failed(i) =>
            /\ AbortedAt(i)
            /\ SubSeq(stdout, BeforeStreams + 4, Len(stdout)) = UrlsOfFirst(i - 1)

\* the URLs of the records that precede the first record without an embedUrl
RECURSIVE UrlsBeforeGap(_)
UrlsBeforeGap(ss) ==
    IF ss = <<>> \/ Head(ss).embedUrl = None THEN <<>>
    ELSE <<Head(ss).embedUrl[1]>> \o UrlsBeforeGap(Tail(ss))

\* C9 amended: as claimed, except that when the failure of the i-th source is
\* a stream record without an embedUrl, the URLs of that source's records
\* before that record have been printed; on a failed fetch, a body that is
\* not JSON or not an array, or a malformed descriptor, none of its URLs is.
C9_AbortAtFailedSource ==
    \A i \in 1..Len(stream_log) :
        Failed(i) =>
            /\ AbortedAt(i)
            /\ LET r == stream_log[i].resp
                   own == IF stream_log[i].requested /\ r.net /\ r.body.json /\ r.body.streams # None
                          THEN UrlsBeforeGap(r.body.streams[1]) ELSE <<>>
               IN  SubSeq(stdout, BeforeStreams + 4, Len(stdout)) = UrlsOfFirst(i - 1) \o own

\* the first of two sources fails: the second is never asked for
C9_Witness ==
    /\ Len(sources) = 2
    /\ Failed(1)
    /\ stream_log[1].requested
    /\ Len(stream_log) = 1
    /\ Len(StreamRequests) = 1
    /\ pc = "Done"

(***************************** properties: the flow ************************)
\* the stage of the selection flow main is in
Stage ==
    CASE pc \in {"FetchToday", "FetchYesterday"} -> 1     \* AwaitingSchedule
      [] pc = "AwaitingSelection" -> 2
      [] pc \in {"GetSources", "GetStreams", "StreamLoop"} -> 3   \* Resolving
      [] pc = "Done" -> 4

MatchesRequests == {i \in 1..Len(requests) : requests[i] = matches_url}
ValidSelection ==
    /\ input # None
    /\ \E k \in 1..Len(games) : Denotes(input[1], k) /\ game_number = Some(k - 1)

FlowInvariant ==
    \* the matches request: at most once, and only after a valid selection
    /\ Cardinality(MatchesRequests) <= 1
    /\ Cardinality(MatchesRequests) = Len(match_log)
    /\ MatchesRequests # {} => ValidSelection /\ MatchesRequests = {Len(sched_log) + 1}
    \* get_streams: only after get_sources returned successfully
    /\ (pc = "GetStreams" \/ pc = "StreamLoop" \/ stream_log # <<>> \/ Len(requests) > Len(sched_log) + 1
          \/ \E i \in 1..Len(stdout) : stdout[i] = "Streams: ")
       => /\ Len(match_log) = 1
          /\ match_log[1].resp.net /\ match_log[1].resp.body.json
          /\ match_log[1].resp.body.matches # None
          /\ match_log[1].kind = "Ok"
    \* an invalid selection ends the run at once, with the message and no request
    /\ (input # None /\ ~ \E k \in 1..Len(games) : Denotes(input[1], k)) =>
          /\ pc = "Done" /\ exit = "ok"
          /\ stdout[Len(stdout)] = "Invalid selection"
          /\ Len(requests) = Len(sched_log)
          /\ match_log = <<>> /\ stream_log = <<>>
    /\ input = None => Stage <= 2 \/ (pc = "Done" /\ exit \in {"err", "panic"})
    /\ input # None => Stage >= 3

\* C10: main moves forward through AwaitingSchedule, AwaitingSelection,
\* Resolving and Done and never back; the matches request is issued at most
\* once and only after a valid selection; the stream requests begin only after
\* get_sources returned successfully; an invalid selection goes from
\* AwaitingSelection straight to Done, printing "Invalid selection" and
\* issuing no matches or stream request.
C10_StrictlyForward ==
    /\ []FlowInvariant
    /\ [][/\ Stage' >= Stage
          /\ (Stage = 2 /\ ~ \E k \in 1..Len(games) : Denotes(input'[1], k)) => Stage' = 4
          /\ Stage = 4 => UNCHANGED vars]_vars

\* a run through all four stages, to the streams of a source
C10_Witness ==
    /\ pc = "Done" /\ exit = "ok"
    /\ Len(sched_log) = 2
    /\ ValidSelection
    /\ Len(match_log) = 1
    /\ Len(stream_log) = 2
    /\ stdout[Len(stdout)] \in EmbedUrls

====
